---- MODULE Spec2Model ----
(***************************************************************************)
(* A state-machine model of the catering quotation app:                    *)
(*   - OrderFormScreen (app/(tabs)/index.tsx): form state, its effects,    *)
(*     the order-block handlers, generateAndSavePDF and the share actions; *)
(*   - HistoryScreen (app/(tabs)/history.tsx): the load / repair pipeline; *)
(*   - AsyncStorage keys 'orders' and 'clients', and the PDF folder.       *)
(*                                                                         *)
(* Strings are sequences of one-character strings, so that prefix tests,   *)
(* padding, upper-casing and whitespace removal are computed, not assumed. *)
(* React is modelled by two records: st, the component state the setters   *)
(* write, and view, the state of the last committed render, which is what  *)
(* the closures of the handlers read.  Render commits st to view and runs  *)
(* the effects whose dependencies changed.                                 *)
(***************************************************************************)
EXTENDS Integers, Sequences, FiniteSets, TLC

VARIABLES
  st,          \* OrderFormScreen: the useState cells
  view,        \* OrderFormScreen: the state captured by the last render
  now,         \* Date.now()
  keys,        \* AsyncStorage: the keys that hold an item
  orders,      \* AsyncStorage item 'orders' (the parsed JSON array)
  clients,     \* AsyncStorage item 'clients' (the parsed JSON array)
  folder,      \* FileSystem: BBN_Quotations/ exists
  files,       \* FileSystem: the files in BBN_Quotations/
  shared,      \* the uris handed to Sharing.shareAsync by the form
  run,         \* the sendPDFOnly invocations, one record per slot
  idLookups,   \* generateOrderId calls awaiting AsyncStorage
  sugLookups,  \* suggestion effects awaiting loadClients
  msg,         \* sendMessageOnly: position
  hist,        \* HistoryScreen: position, locals and sections
  faults,      \* number of rejected platform calls so far
  selected     \* history: the client of the last selectClient, until name or mobile is edited

vars == <<st, view, now, keys, orders, clients, folder, files, shared, run,
          idLookups, sugLookups, msg, hist, faults, selected>>

storeVars == <<keys, orders, clients, folder, files, shared>>

----------------------------------------------------------------------------
(* Bounds of the model *)

MaxOrders == 3
MaxBlocks == 3
MaxClock == 2
MaxFaults == 1

(* Program constants *)

FirstBlockId == 1
MinQueryLen == 2
MaxSuggestions == 5
MobileLen == 10
SeqWidth == 3
DayWidth == 2

(* The first value Date.now() can take in the model: any instant after the
   epoch millisecond 1 that names the initial block. *)
ClockStart == 2

----------------------------------------------------------------------------
(* JavaScript strings *)

Digits == <<"0", "1", "2", "3", "4", "5", "6", "7", "8", "9">>

LowerLetters == <<"a", "b", "c", "d", "e", "f", "g", "h", "i", "j", "k", "l", "m",
                  "n", "o", "p", "q", "r", "s", "t", "u", "v", "w", "x", "y", "z">>

UpperLetters == <<"A", "B", "C", "D", "E", "F", "G", "H", "I", "J", "K", "L", "M",
                  "N", "O", "P", "Q", "R", "S", "T", "U", "V", "W", "X", "Y", "Z">>

IsDigit(c) == \E i \in 1..10 : Digits[i] = c

DigitValue(c) == CHOOSE i \in 0..9 : Digits[i + 1] = c

\* \s of the regular expressions, over the characters the model types
IsSpace(c) == c \in {" ", "\t", "\n"}

UpperChar(c) ==
  IF \E i \in 1..26 : LowerLetters[i] = c
  THEN UpperLetters[CHOOSE i \in 1..26 : LowerLetters[i] = c]
  ELSE c

LowerChar(c) ==
  IF \E i \in 1..26 : UpperLetters[i] = c
  THEN LowerLetters[CHOOSE i \in 1..26 : UpperLetters[i] = c]
  ELSE c

ToUpperCase(s) == [i \in 1..Len(s) |-> UpperChar(s[i])]

ToLowerCase(s) == [i \in 1..Len(s) |-> LowerChar(s[i])]

\* s.replace(/\s+/g, '')
RemoveWhitespace(s) == SelectSeq(s, LAMBDA c : ~IsSpace(c))

RECURSIVE Trim(_)
\* s.trim()
Trim(s) ==
  IF s = <<>> THEN s
  ELSE IF IsSpace(s[1]) THEN Trim(Tail(s))
  ELSE IF IsSpace(s[Len(s)]) THEN Trim(SubSeq(s, 1, Len(s) - 1))
  ELSE s

StartsWith(s, p) == Len(p) <= Len(s) /\ SubSeq(s, 1, Len(p)) = p

Includes(s, q) == \E i \in 0..(Len(s) - Len(q)) : SubSeq(s, i + 1, i + Len(q)) = q

RECURSIVE NumToString(_)
\* String(n), n a natural number
NumToString(n) ==
  IF n < 10 THEN <<Digits[n + 1]>>
  ELSE Append(NumToString(n \div 10), Digits[(n % 10) + 1])

\* s.padStart(width, c)
PadStart(s, width, c) ==
  IF Len(s) >= width THEN s
  ELSE [i \in 1..(width - Len(s)) |-> c] \o s

----------------------------------------------------------------------------
(* JSON objects: a record; a field the object lacks is a field the record lacks *)

Has(o, f) == f \in DOMAIN o

\* o.f is truthy: present and not the empty string
Truthy(o, f) == Has(o, f) /\ o[f] # <<>>

----------------------------------------------------------------------------
(* Number(s) of a string: the StringNumericLiteral grammar of ECMAScript *)

IsDecimalDigits(s) == s # <<>> /\ \A i \in 1..Len(s) : IsDigit(s[i])

IsHexDigits(s) ==
  s # <<>> /\ \A i \in 1..Len(s) :
     IsDigit(s[i]) \/ s[i] \in {"a", "b", "c", "d", "e", "f", "A", "B", "C", "D", "E", "F"}

IsOctalDigits(s) == s # <<>> /\ \A i \in 1..Len(s) : IsDigit(s[i]) /\ DigitValue(s[i]) < 8

IsBinaryDigits(s) == s # <<>> /\ \A i \in 1..Len(s) : s[i] \in {"0", "1"}

\* ExponentPart, or nothing
IsExponentOpt(s) ==
  \/ s = <<>>
  \/ /\ s[1] \in {"e", "E"}
     /\ LET r == Tail(s)
        IN IF r # <<>> /\ r[1] \in {"+", "-"} THEN IsDecimalDigits(Tail(r))
           ELSE IsDecimalDigits(r)

\* StrUnsignedDecimalLiteral
IsUnsignedDecimal(s) ==
  \/ s = <<"I", "n", "f", "i", "n", "i", "t", "y">>
  \/ \E i \in 0..Len(s) :
       LET int == SubSeq(s, 1, i)
           rest == SubSeq(s, i + 1, Len(s))
       IN \/ IsDecimalDigits(int) /\ IsExponentOpt(rest)
          \/ /\ rest # <<>> /\ rest[1] = "."
             /\ \E j \in 1..Len(rest) :
                  LET frac == SubSeq(rest, 2, j)
                      exp == SubSeq(rest, j + 1, Len(rest))
                  IN /\ IF int = <<>> THEN IsDecimalDigits(frac)
                        ELSE IsDecimalDigits(int) /\ (frac = <<>> \/ IsDecimalDigits(frac))
                     /\ IsExponentOpt(exp)

\* StrDecimalLiteral: an optional sign, then StrUnsignedDecimalLiteral
IsStrDecimalLiteral(s) ==
  IF s # <<>> /\ s[1] \in {"+", "-"} THEN IsUnsignedDecimal(Tail(s))
  ELSE IsUnsignedDecimal(s)

\* NonDecimalIntegerLiteral: 0x.., 0o.., 0b.., unsigned
IsNonDecimalInteger(s) ==
  /\ Len(s) >= 3
  /\ s[1] = "0"
  /\ LET body == SubSeq(s, 3, Len(s))
     IN \/ s[2] \in {"x", "X"} /\ IsHexDigits(body)
        \/ s[2] \in {"o", "O"} /\ IsOctalDigits(body)
        \/ s[2] \in {"b", "B"} /\ IsBinaryDigits(body)

\* isNaN(Number(s)): white space is stripped, the empty string is 0
NumberIsNaN(s) ==
  LET t == Trim(s)
  IN ~(t = <<>> \/ IsNonDecimalInteger(t) \/ IsStrDecimalLiteral(t))

----------------------------------------------------------------------------
(* Dates: date is [d, m, y], time is [h, min] on the 24 hour clock *)

\* date.toLocaleDateString('en-GB')
FormatDate(date) ==
  PadStart(NumToString(date.d), DayWidth, "0") \o <<"/">>
    \o PadStart(NumToString(date.m), DayWidth, "0") \o <<"/">> \o NumToString(date.y)

\* time.toLocaleTimeString('en-US', {hour: 'numeric', minute: '2-digit', hour12: true})
FormatTime(time) ==
  LET h12 == IF time.h % 12 = 0 THEN 12 ELSE time.h % 12
  IN NumToString(h12) \o <<":">> \o PadStart(NumToString(time.min), DayWidth, "0")
       \o <<" ">> \o (IF time.h < 12 THEN <<"A", "M">> ELSE <<"P", "M">>)

FormatDateTime(date, time) ==
  FormatDate(date) \o <<" ", "a", "t", " ">> \o FormatTime(time)

----------------------------------------------------------------------------
(* OrderFormScreen: state *)

NewBlock(id) == [id |-> id, description |-> <<>>, notes |-> <<>>, guests |-> <<>>]

InitialState(date, time) ==
  [orderId |-> <<>>, clientName |-> <<>>, mobile |-> <<>>, address |-> <<>>,
   date |-> date, time |-> time,
   orderBlocks |-> <<NewBlock(NumToString(FirstBlockId))>>,
   quotationAmount |-> <<>>,
   snackbarVisible |-> FALSE, snackbarMessage |-> "",
   clientSuggestions |-> <<>>, showSuggestions |-> FALSE, searchField |-> "name"]

\* BBN_DIR: one token stands for the document directory and the folder name
BBN_DIR == <<"BBN_Quotations/">>

PdfUri(orderId) == BBN_DIR \o orderId \o <<".pdf">>

----------------------------------------------------------------------------
(* AsyncStorage *)

\* stored ? JSON.parse(stored) : []   for the key 'orders'
StoredOrders == IF "orders" \in keys THEN orders ELSE <<>>

\* stored ? JSON.parse(stored) : []   for the key 'clients'
StoredClients == IF "clients" \in keys THEN clients ELSE <<>>

----------------------------------------------------------------------------
(* OrderFormScreen: the functions of the component *)

\* the base string of generateOrderId
IdBase(clientName, date) ==
  RemoveWhitespace(ToUpperCase(clientName))
    \o PadStart(NumToString(date.d), DayWidth, "0")
    \o PadStart(NumToString(date.m), DayWidth, "0")
    \o NumToString(date.y) \o <<"Q">>

\* orders.filter(o => o.id?.startsWith(base))
SameBase(stored, base) ==
  SelectSeq(stored, LAMBDA o : Has(o, "id") /\ StartsWith(o.id, base))

\* seeded fault: the sequence number without the + 1
IdSeqFromZero(stored, base) ==
  PadStart(NumToString(Len(SameBase(stored, base))), SeqWidth, "0")

\* the sequence number of generateOrderId
IdSeq(stored, base) ==
  PadStart(NumToString(Len(SameBase(stored, base)) + 1), SeqWidth, "0")

\* generateOrderId, given the array read from 'orders'
GenerateOrderId(clientName, date, stored) ==
  IF clientName = <<>> THEN <<>>
  ELSE LET base == IdBase(clientName, date)
       IN base \o IdSeq(stored, base)

\* what the closures of one render see of the state
Closure(v) ==
  [orderId |-> v.orderId, clientName |-> v.clientName, mobile |-> v.mobile,
   address |-> v.address, date |-> v.date, time |-> v.time,
   orderBlocks |-> v.orderBlocks, quotationAmount |-> v.quotationAmount]

\* seeded fault: the first check without the address
RequiredFilledButAddress(c) ==
  ~(c.orderId = <<>> \/ c.clientName = <<>> \/ c.mobile = <<>>
      \/ c.quotationAmount = <<>>)

\* the first check of generateAndSavePDF passes
RequiredFilled(c) ==
  ~(c.orderId = <<>> \/ c.clientName = <<>> \/ c.mobile = <<>>
      \/ c.address = <<>> \/ c.quotationAmount = <<>>)

\* the second check of generateAndSavePDF passes
MobileAccepted(c) == ~(Len(c.mobile) # MobileLen \/ NumberIsNaN(c.mobile))

\* the third check of generateAndSavePDF passes
HasMenuItem(c) ==
  ~(\A i \in 1..Len(c.orderBlocks) : Trim(c.orderBlocks[i].description) = <<>>)

\* the message of the first failing check, "" when all pass
ValidationMessage(c) ==
  IF ~RequiredFilled(c) THEN "Fill all required fields."
  ELSE IF ~MobileAccepted(c) THEN "Mobile must be 10 digits."
  ELSE IF ~HasMenuItem(c) THEN "Add at least one menu item."
  ELSE ""

\* the order record generateAndSavePDF builds
OrderRecord(c) ==
  [id |-> c.orderId, clientName |-> c.clientName, mobile |-> c.mobile,
   address |-> c.address, dateTime |-> FormatDateTime(c.date, c.time),
   orderBlocks |-> c.orderBlocks, quotationAmount |-> c.quotationAmount,
   pdfUri |-> PdfUri(c.orderId)]

\* the client record saveClient builds
NewClient(c) ==
  [mobile |-> c.mobile, name |-> c.clientName, address |-> c.address,
   notes |-> c.orderBlocks[1].notes]

\* seeded fault: saveClient without the lookup of the mobile
UpsertAlwaysPushes(list, new) == Append(list, new)

\* saveClient: push, or Object.assign onto the first record with that mobile
UpsertClient(list, new) ==
  IF \E i \in 1..Len(list) : list[i].mobile = new.mobile
  THEN LET k == CHOOSE i \in 1..Len(list) :
                  /\ list[i].mobile = new.mobile
                  /\ \A j \in 1..(i - 1) : list[j].mobile # new.mobile
       IN [list EXCEPT ![k] = new]
  ELSE Append(list, new)

\* the filter of the suggestions effect
Matches(list, query) ==
  SelectSeq(list, LAMBDA c :
     Includes(ToLowerCase(c.name), ToLowerCase(query)) \/ Includes(c.mobile, query))

\* matches.slice(0, 5)
FirstSuggestions(matches) ==
  SubSeq(matches, 1, IF Len(matches) < MaxSuggestions THEN Len(matches) ELSE MaxSuggestions)

\* the query of the suggestions effect
Query(v) == IF v.searchField = "name" THEN v.clientName ELSE v.mobile

Snackbar(s, message) == [s EXCEPT !.snackbarMessage = message, !.snackbarVisible = TRUE]

----------------------------------------------------------------------------
(* OrderFormScreen: the handlers the user drives *)

RunIds == {1, 2}

IdleRun == [pc |-> "idle"]

NoClient == [mobile |-> <<>>, name |-> <<>>, address |-> <<>>, notes |-> <<>>]

\* everything but the component state and the selection history
restVars == <<view, now, keys, orders, clients, folder, files, shared, run,
              idLookups, sugLookups, msg, hist, faults>>

\* onChangeText={setClientName}
SetClientName(text) ==
  /\ st' = [st EXCEPT !.clientName = text]
  /\ selected' = NoClient
  /\ UNCHANGED restVars

\* onChangeText={setMobile}
SetMobile(text) ==
  /\ st' = [st EXCEPT !.mobile = text]
  /\ selected' = NoClient
  /\ UNCHANGED restVars

\* onChangeText={setAddress}
SetAddress(text) ==
  /\ st' = [st EXCEPT !.address = text]
  /\ UNCHANGED <<selected, restVars>>

\* onChangeText={setQuotationAmount}
SetQuotationAmount(text) ==
  /\ st' = [st EXCEPT !.quotationAmount = text]
  /\ UNCHANGED <<selected, restVars>>

\* onFocus={() => setSearchField(field)}
SetSearchField(field) ==
  /\ st' = [st EXCEPT !.searchField = field]
  /\ UNCHANGED <<selected, restVars>>

\* onChangeDate with a selected date
OnChangeDate(d) ==
  /\ st' = [st EXCEPT !.date = d]
  /\ UNCHANGED <<selected, restVars>>

\* onChangeTime with a selected time
OnChangeTime(t) ==
  /\ st' = [st EXCEPT !.time = t]
  /\ UNCHANGED <<selected, restVars>>

\* onDismiss of the Snackbar
DismissSnackbar ==
  /\ st.snackbarVisible
  /\ st' = [st EXCEPT !.snackbarVisible = FALSE]
  /\ UNCHANGED <<selected, restVars>>

\* a suggestion row the last render shows is pressed
SelectClient(c) ==
  /\ view.showSuggestions
  /\ \E i \in 1..Len(view.clientSuggestions) : view.clientSuggestions[i] = c
  /\ st' = [st EXCEPT !.clientName = c.name, !.mobile = c.mobile,
                      !.address = c.address, !.showSuggestions = FALSE]
  /\ selected' = c
  /\ UNCHANGED restVars

\* the clock advances
Tick ==
  /\ now < ClockStart + MaxClock
  /\ now' = now + 1
  /\ UNCHANGED <<st, view, keys, orders, clients, folder, files, shared, run,
                 idLookups, sugLookups, msg, hist, faults, selected>>

AddOrderBlock ==
  /\ Len(st.orderBlocks) < MaxBlocks
  /\ st' = [st EXCEPT !.orderBlocks = Append(@, NewBlock(NumToString(now)))]
  /\ UNCHANGED <<selected, restVars>>

\* updateBlock: the blocks with that id get the value
UpdatedBlocks(blocks, id, field, value) ==
  [i \in 1..Len(blocks) |->
     IF blocks[i].id = id THEN [blocks[i] EXCEPT ![field] = value] ELSE blocks[i]]

UpdateBlock(id, field, value) ==
  /\ st' = [st EXCEPT !.orderBlocks = UpdatedBlocks(@, id, field, value)]
  /\ UNCHANGED <<selected, restVars>>

\* prev.filter(b => b.id !== id)
WithoutBlock(blocks, id) == SelectSeq(blocks, LAMBDA b : b.id # id)

\* the length test of removeBlock, on the array its closure holds
MayRemove(rendered) == Len(rendered) > 1

RemoveBlock(id) ==
  /\ st' = IF MayRemove(view.orderBlocks)
           THEN [st EXCEPT !.orderBlocks = WithoutBlock(@, id)]
           ELSE st
  /\ UNCHANGED <<selected, restVars>>

\* the ids of the block cards the last render shows
RenderedBlockIds == {view.orderBlocks[i].id : i \in 1..Len(view.orderBlocks)}

----------------------------------------------------------------------------
(* OrderFormScreen: render and effects *)

\* the effect on [clientName, date]: generateOrderId().then(setOrderId)
OrderIdEffectRuns == st.clientName # view.clientName \/ st.date # view.date

\* the effect on [clientName, mobile, searchField]
SuggestionEffectRuns ==
  st.clientName # view.clientName \/ st.mobile # view.mobile
    \/ st.searchField # view.searchField

Render ==
  /\ view # st
  /\ view' = st
  /\ LET afterId ==
           IF OrderIdEffectRuns /\ st.clientName = <<>>
           THEN [st EXCEPT !.orderId = <<>>]
           ELSE st
         afterSug ==
           IF SuggestionEffectRuns /\ Len(Query(st)) < MinQueryLen
           THEN [afterId EXCEPT !.showSuggestions = FALSE]
           ELSE afterId
     IN st' = afterSug
  /\ idLookups' =
       IF OrderIdEffectRuns /\ st.clientName # <<>>
       THEN Append(idLookups, [clientName |-> st.clientName, date |-> st.date])
       ELSE idLookups
  /\ sugLookups' =
       IF SuggestionEffectRuns /\ Len(Query(st)) >= MinQueryLen
       THEN Append(sugLookups, [query |-> Query(st)])
       ELSE sugLookups
  /\ UNCHANGED <<now, keys, orders, clients, folder, files, shared, run, msg,
                 hist, faults, selected>>

\* seq without its i-th element
Without(seq, i) == SubSeq(seq, 1, i - 1) \o SubSeq(seq, i + 1, Len(seq))

\* AsyncStorage.getItem('orders') of a generateOrderId call resolves
IdLookupDone(i) ==
  /\ i \in 1..Len(idLookups)
  /\ st' = [st EXCEPT !.orderId =
              GenerateOrderId(idLookups[i].clientName, idLookups[i].date, StoredOrders)]
  /\ idLookups' = Without(idLookups, i)
  /\ UNCHANGED <<view, now, keys, orders, clients, folder, files, shared, run,
                 sugLookups, msg, hist, faults, selected>>

\* AsyncStorage.getItem('orders') of a generateOrderId call rejects
IdLookupFails(i) ==
  /\ i \in 1..Len(idLookups)
  /\ faults < MaxFaults
  /\ faults' = faults + 1
  /\ idLookups' = Without(idLookups, i)
  /\ UNCHANGED <<st, view, now, keys, orders, clients, folder, files, shared,
                 run, sugLookups, msg, hist, selected>>

\* loadClients of a suggestions effect resolves: with the item, or with [] from its catch
SugLookupDone(i, ok) ==
  /\ i \in 1..Len(sugLookups)
  /\ ok \/ faults < MaxFaults
  /\ faults' = IF ok THEN faults ELSE faults + 1
  /\ LET loaded == IF ok THEN StoredClients ELSE <<>>
         matches == Matches(loaded, sugLookups[i].query)
     IN st' = [st EXCEPT !.clientSuggestions = FirstSuggestions(matches),
                         !.showSuggestions = Len(matches) > 0]
  /\ sugLookups' = Without(sugLookups, i)
  /\ UNCHANGED <<view, now, keys, orders, clients, folder, files, shared, run,
                 idLookups, msg, hist, selected>>

----------------------------------------------------------------------------
(* OrderFormScreen: sendPDFOnly and generateAndSavePDF, one await per step *)

InFlight(r) == run[r].pc # "idle"

\* the Send PDF button is pressed: the three checks run on the closure of the
\* last render; when they pass the run goes on to ensureFolder
SendPDFOnly(r) ==
  /\ ~InFlight(r)
  /\ LET c == Closure(view)
         message == ValidationMessage(c)
     IN IF message # ""
        THEN /\ st' = Snackbar(st, message)
             /\ UNCHANGED run
        ELSE /\ run' = [run EXCEPT ![r] =
                          [pc |-> "ensureFolder", cl |-> c, before |-> StoredOrders]]
             /\ UNCHANGED st
  /\ UNCHANGED <<view, now, keys, orders, clients, folder, files, shared,
                 idLookups, sugLookups, msg, hist, faults, selected>>

\* the catch of generateAndSavePDF: an awaited call of run r rejected
Rejected(r) ==
  /\ faults < MaxFaults
  /\ faults' = faults + 1
  /\ st' = Snackbar(st, "Failed to generate PDF")
  /\ run' = [run EXCEPT ![r] = IdleRun]
  /\ UNCHANGED <<view, now, keys, orders, clients, folder, files, shared,
                 idLookups, sugLookups, msg, hist, selected>>

\* seeded fault: the copy to <id>.pdf left out of the sequence
GotoSkipsCopy(r, pc) ==
  run' = [run EXCEPT ![r].pc = IF pc = "copy" THEN "getOrders" ELSE pc]

Goto(r, pc) == run' = [run EXCEPT ![r].pc = pc]

\* await ensureFolder()
EnsureFolder(r, ok) ==
  /\ run[r].pc = "ensureFolder"
  /\ IF ok
     THEN /\ folder' = TRUE
          /\ Goto(r, "print")
          /\ UNCHANGED <<st, view, now, keys, orders, clients, files, shared,
                         idLookups, sugLookups, msg, hist, faults, selected>>
     ELSE Rejected(r)

\* await Print.printToFileAsync({ html })
PrintToFile(r, ok) ==
  /\ run[r].pc = "print"
  /\ IF ok
     THEN /\ Goto(r, "copy")
          /\ UNCHANGED <<st, view, now, keys, orders, clients, folder, files,
                         shared, idLookups, sugLookups, msg, hist, faults, selected>>
     ELSE Rejected(r)

\* await FileSystem.copyAsync({ from: uri, to: finalUri })
CopyFile(r, ok) ==
  /\ run[r].pc = "copy"
  /\ IF ok
     THEN /\ files' = files \cup {PdfUri(run[r].cl.orderId)}
          /\ Goto(r, "getOrders")
          /\ UNCHANGED <<st, view, now, keys, orders, clients, folder, shared,
                         idLookups, sugLookups, msg, hist, faults, selected>>
     ELSE Rejected(r)

\* await AsyncStorage.getItem('orders'), then list.push(order)
GetOrders(r, ok) ==
  /\ run[r].pc = "getOrders"
  /\ IF ok
     THEN /\ run' = [run EXCEPT ![r] =
                       [pc |-> "setOrders", cl |-> run[r].cl, before |-> run[r].before,
                        list |-> Append(StoredOrders, OrderRecord(run[r].cl))]]
          /\ UNCHANGED <<st, view, now, keys, orders, clients, folder, files,
                         shared, idLookups, sugLookups, msg, hist, faults, selected>>
     ELSE Rejected(r)

\* saveClient returns at once when mobile or clientName is empty
SaveClientSkips(c) == c.mobile = <<>> \/ c.clientName = <<>>

\* await AsyncStorage.setItem('orders', JSON.stringify(list))
SetOrders(r, ok) ==
  /\ run[r].pc = "setOrders"
  /\ IF ok
     THEN /\ orders' = run[r].list
          /\ keys' = keys \cup {"orders"}
          /\ Goto(r, IF SaveClientSkips(run[r].cl) THEN "share" ELSE "loadClients")
          /\ UNCHANGED <<st, view, now, clients, folder, files, shared,
                         idLookups, sugLookups, msg, hist, faults, selected>>
     ELSE Rejected(r)

\* saveClient: await loadClients(), which resolves to [] when the read rejects,
\* then the push or the Object.assign
LoadClients(r, ok) ==
  /\ run[r].pc = "loadClients"
  /\ ok \/ faults < MaxFaults
  /\ faults' = IF ok THEN faults ELSE faults + 1
  /\ run' = [run EXCEPT ![r] =
               [pc |-> "setClients", cl |-> run[r].cl, before |-> run[r].before,
                clients |-> UpsertClient(IF ok THEN StoredClients ELSE <<>>,
                                         NewClient(run[r].cl))]]
  /\ UNCHANGED <<st, view, now, keys, orders, clients, folder, files, shared,
                 idLookups, sugLookups, msg, hist, selected>>

\* saveClient: await AsyncStorage.setItem('clients', JSON.stringify(clients))
SetClients(r, ok) ==
  /\ run[r].pc = "setClients"
  /\ IF ok
     THEN /\ clients' = run[r].clients
          /\ keys' = keys \cup {"clients"}
          /\ Goto(r, "share")
          /\ UNCHANGED <<st, view, now, orders, folder, files, shared,
                         idLookups, sugLookups, msg, hist, faults, selected>>
     ELSE Rejected(r)

\* sendPDFOnly: await Sharing.shareAsync(result.finalUri, ...); a rejection is
\* not caught and leaves the handler without a message
ShareFile(r, ok) ==
  /\ run[r].pc = "share"
  /\ ok \/ faults < MaxFaults
  /\ faults' = IF ok THEN faults ELSE faults + 1
  /\ shared' = IF ok THEN shared \cup {PdfUri(run[r].cl.orderId)} ELSE shared
  /\ st' = IF ok THEN Snackbar(st, "PDF shared") ELSE st
  /\ run' = [run EXCEPT ![r] = IdleRun]
  /\ UNCHANGED <<view, now, keys, orders, clients, folder, files, idLookups,
                 sugLookups, msg, hist, selected>>

----------------------------------------------------------------------------
(* OrderFormScreen: sendMessageOnly *)

\* the Send Message button is pressed
SendMessageOnly ==
  /\ msg = "idle"
  /\ IF view.mobile = <<>>
     THEN /\ st' = Snackbar(st, "Enter mobile number")
          /\ UNCHANGED msg
     ELSE /\ msg' = "canOpenURL"
          /\ UNCHANGED st
  /\ UNCHANGED <<view, now, keys, orders, clients, folder, files, shared, run,
                 idLookups, sugLookups, hist, faults, selected>>

\* Linking.canOpenURL resolved, and Linking.openURL when it said yes
MessageDone(can) ==
  /\ msg = "canOpenURL"
  /\ msg' = "idle"
  /\ st' = Snackbar(st, IF can THEN "Message sent" ELSE "WhatsApp not installed")
  /\ UNCHANGED <<view, now, keys, orders, clients, folder, files, shared, run,
                 idLookups, sugLookups, hist, faults, selected>>

----------------------------------------------------------------------------
(* HistoryScreen: parseDate *)

RECURSIVE DigitsValue(_)
\* parseInt, or Number, of a string of decimal digits
DigitsValue(s) ==
  IF s = <<>> THEN 0 ELSE DigitsValue(SubSeq(s, 1, Len(s) - 1)) * 10 + DigitValue(s[Len(s)])

\* the first index at which sep occurs in s, 0 when it does not
IndexOf(s, sep) ==
  IF \E i \in 1..(Len(s) - Len(sep) + 1) : SubSeq(s, i, i + Len(sep) - 1) = sep
  THEN CHOOSE i \in 1..(Len(s) - Len(sep) + 1) :
         /\ SubSeq(s, i, i + Len(sep) - 1) = sep
         /\ \A j \in 1..(i - 1) : SubSeq(s, j, j + Len(sep) - 1) # sep
  ELSE 0

RECURSIVE Split(_, _)
\* s.split(sep), sep not empty
Split(s, sep) ==
  LET i == IndexOf(s, sep)
  IN IF i = 0 THEN <<s>>
     ELSE <<SubSeq(s, 1, i - 1)>> \o Split(SubSeq(s, i + Len(sep), Len(s)), sep)

\* the last index of the run of digits that starts at i; i - 1 when s[i] is no digit
DigitRunEnd(s, i) ==
  CHOOSE j \in (i - 1)..Len(s) :
    /\ \A k \in i..j : IsDigit(s[k])
    /\ j = Len(s) \/ ~IsDigit(s[j + 1])

\* the first index from i on that holds no white space
SkipSpaces(s, i) ==
  CHOOSE j \in i..(Len(s) + 1) :
    /\ \A k \in i..(j - 1) : IsSpace(s[k])
    /\ j = Len(s) + 1 \/ ~IsSpace(s[j])

\* v bound to a name once: body(v)
Let(v, body(_)) == CHOOSE r \in {body(x) : x \in {v}} : TRUE

\* /(\d+):(\d+)\s*(AM|PM)/i matches s from index i on
TimeMatchesAt(s, i) ==
  \E j \in {DigitRunEnd(s, i)} :
    /\ j >= i
    /\ j + 1 <= Len(s) /\ s[j + 1] = ":"
    /\ \E k \in {DigitRunEnd(s, j + 2)} :
         /\ k >= j + 2
         /\ \E l \in {SkipSpaces(s, k + 1)} :
              /\ l + 1 <= Len(s)
              /\ ToUpperCase(SubSeq(s, l, l + 1)) \in {<<"A", "M">>, <<"P", "M">>}

\* the groups of the match that starts at i
TimeGroups(s, i) ==
  Let(DigitRunEnd(s, i), LAMBDA j :
    Let(DigitRunEnd(s, j + 2), LAMBDA k :
      [found |-> TRUE, h |-> SubSeq(s, i, j), min |-> SubSeq(s, j + 2, k),
       ampm |-> ToUpperCase(SubSeq(s, SkipSpaces(s, k + 1), SkipSpaces(s, k + 1) + 1))]))

\* timePart.match(...): the groups of the leftmost match, or no match
TimeMatch(s) ==
  Let({i \in 1..Len(s) : TimeMatchesAt(s, i)}, LAMBDA starts :
    IF starts = {} THEN [found |-> FALSE]
    ELSE TimeGroups(s, CHOOSE i \in starts : \A p \in starts : i <= p))

\* days from 1 January 1970 to the civil date (y, m, d), m in 1..12, any d
DaysFromCivil(y, m, d) ==
  LET yy == IF m <= 2 THEN y - 1 ELSE y
      era == yy \div 400
      yoe == yy - era * 400
      doy == (153 * (IF m > 2 THEN m - 3 ELSE m + 9) + 2) \div 5 + d - 1
      doe == yoe * 365 + yoe \div 4 - yoe \div 100 + doy
  IN era * 146097 + doe - 719468

\* the civil date [y, m, d] of a day number
CivilFromDays(z) ==
  LET zz == z + 719468
      era == zz \div 146097
      doe == zz - era * 146097
      yoe == (doe - doe \div 1460 + doe \div 36524 - doe \div 146096) \div 365
      doy == doe - (365 * yoe + yoe \div 4 - yoe \div 100)
      mp == (5 * doy + 2) \div 153
      m == IF mp < 10 THEN mp + 3 ELSE mp - 9
  IN [y |-> IF m <= 2 THEN yoe + era * 400 + 1 ELSE yoe + era * 400,
      m |-> m, d |-> doy - (153 * mp + 2) \div 5 + 1]

\* new Date(y, monthIndex, d, hour, minute).getTime(), in minutes of local time:
\* components out of range carry over, years 0..99 mean 1900..1999
DateValue(y, monthIndex, d, hour, minute) ==
  LET full == IF y >= 0 /\ y <= 99 THEN 1900 + y ELSE y
      yy == full + monthIndex \div 12
      mm == (monthIndex % 12) + 1
  IN (DaysFromCivil(yy, mm, 1) + d - 1) * 1440 + hour * 60 + minute

\* the hour on the 24 hour clock
Hour24(h, ampm) ==
  IF ampm = <<"P", "M">> /\ h # 12 THEN h + 12
  ELSE IF ampm = <<"A", "M">> /\ h = 12 THEN 0
  ELSE h

\* parseDate(s).getTime(); current stands for new Date()
ParseDate(o, current) ==
  IF ~Truthy(o, "dateTime") THEN current
  ELSE Let(Split(o.dateTime, <<" ", "a", "t", " ">>), LAMBDA parts :
    IF Len(parts) # 2 THEN current
    ELSE Let(Split(parts[1], <<"/">>), LAMBDA nums :
      IF Len(nums) # 3 \/ \E n \in 1..Len(nums) : NumberIsNaN(nums[n]) THEN current
      ELSE Let(TimeMatch(parts[2]), LAMBDA t :
        IF ~t.found THEN current
        ELSE DateValue(DigitsValue(Trim(nums[3])), DigitsValue(Trim(nums[2])) - 1,
                       DigitsValue(Trim(nums[1])),
                       Hour24(DigitsValue(t.h), t.ampm), DigitsValue(t.min)))))

MonthNames == <<"January", "February", "March", "April", "May", "June", "July",
                "August", "September", "October", "November", "December">>

\* `${dt.toLocaleString('default', { month: 'long' })} ${dt.getFullYear()}`
MonthKey(minutes) ==
  LET c == CivilFromDays(minutes \div 1440)
  IN <<MonthNames[c.m], " ">> \o NumToString(c.y)

----------------------------------------------------------------------------
(* HistoryScreen: the load effect *)

\* the filter of step 1
IsValidOrder(o) == Truthy(o, "id") /\ Truthy(o, "dateTime") /\ Truthy(o, "pdfUri")

\* the map of step 1
Normalized(o) ==
  [id |-> o.id,
   clientName |-> IF Has(o, "clientName") THEN o.clientName ELSE <<>>,
   mobile |-> IF Has(o, "mobile") THEN o.mobile ELSE <<>>,
   address |-> IF Has(o, "address") THEN o.address ELSE <<>>,
   dateTime |-> o.dateTime,
   orderBlocks |-> IF Has(o, "orderBlocks") THEN o.orderBlocks ELSE <<>>,
   quotationAmount |-> IF Has(o, "quotationAmount") THEN o.quotationAmount ELSE <<"0">>,
   pdfUri |-> o.pdfUri]

ValidOrders(raw) ==
  LET kept == SelectSeq(raw, IsValidOrder)
  IN [i \in 1..Len(kept) |-> Normalized(kept[i])]

RECURSIVE DedupeFrom(_, _, _)
\* the loop of step 2 from index i on, with the ids seen so far
DedupeFrom(valid, i, seen) ==
  IF i > Len(valid) THEN <<>>
  ELSE IF valid[i].id \in seen THEN DedupeFrom(valid, i + 1, seen)
  ELSE <<valid[i]>> \o DedupeFrom(valid, i + 1, seen \cup {valid[i].id})

\* seeded fault: the last entry of each id is kept instead of the first
DedupedKeepsLast(valid) ==
  LET kept == SelectSeq([i \in 1..Len(valid) |-> [at |-> i, o |-> valid[i]]],
                        LAMBDA e : \A j \in (e.at + 1)..Len(valid) : valid[j].id # e.o.id)
  IN [k \in 1..Len(kept) |-> kept[k].o]

Deduped(valid) == DedupeFrom(valid, 1, {})

\* seeded fault: the comparator reversed, oldest first
SortedOldestFirst(list, stamps) ==
  Let([i \in 1..Len(list) |->
         Cardinality({j \in 1..Len(list) :
            stamps[j] < stamps[i] \/ (stamps[j] = stamps[i] /\ j < i)}) + 1],
      LAMBDA place :
        [k \in 1..Len(list) |-> list[CHOOSE i \in 1..Len(list) : place[i] = k]])

\* deduped.sort((a, b) => parseDate(b.dateTime) - parseDate(a.dateTime)): the sort
\* is stable, so an entry comes after the newer ones and after the earlier
\* entries of its own date; stamps[i] is the parsed date of list[i]
SortedBy(list, stamps) ==
  Let([i \in 1..Len(list) |->
         Cardinality({j \in 1..Len(list) :
            stamps[j] > stamps[i] \/ (stamps[j] = stamps[i] /\ j < i)}) + 1],
      LAMBDA place :
        [k \in 1..Len(list) |-> list[CHOOSE i \in 1..Len(list) : place[i] = k]])

SortNewestFirst(list, current) ==
  Let([i \in 1..Len(list) |-> ParseDate(list[i], current)],
      LAMBDA stamps : SortedBy(list, stamps))

\* step 5: groups[key].push(o) over the sorted list, the keys in the order in
\* which they first appear; titles[i] is the key of sorted[i]
GroupedBy(sorted, titles) ==
  Let({i \in 1..Len(sorted) : \A j \in 1..(i - 1) : titles[j] # titles[i]},
      LAMBDA firsts :
        [g \in 1..Cardinality(firsts) |->
           Let(CHOOSE i \in firsts : Cardinality({j \in firsts : j <= i}) = g,
               LAMBDA first :
                 Let({i \in 1..Len(sorted) : titles[i] = titles[first]},
                     LAMBDA members :
                       [title |-> titles[first],
                        data |-> [k \in 1..Cardinality(members) |->
                                    sorted[CHOOSE i \in members :
                                             Cardinality({j \in members : j <= i}) = k]],
                        count |-> Cardinality(members)]))])

\* steps 4 and 5 and the section list
Sections(deduped, current) ==
  Let(SortNewestFirst(deduped, current), LAMBDA sorted :
    Let([i \in 1..Len(sorted) |-> MonthKey(ParseDate(sorted[i], current))],
        LAMBDA titles : GroupedBy(sorted, titles)))

Unmounted == [pc |-> "unmounted", sections |-> <<>>]

\* the screen mounts and AsyncStorage.getItem('orders') resolves: steps 1 and 2,
\* and steps 4 and 5 when step 3 has nothing to persist
HistoryLoad(current) ==
  /\ hist.pc # "write"
  /\ IF "orders" \notin keys
     THEN hist' = [pc |-> "done", sections |-> <<>>]
     ELSE LET valid == ValidOrders(orders)
              deduped == Deduped(valid)
          IN IF Len(deduped) # Len(valid)
             THEN hist' = [pc |-> "write", sections |-> <<>>, raw |-> orders,
                           deduped |-> deduped, current |-> current]
             ELSE hist' = [pc |-> "done", sections |-> Sections(deduped, current),
                           raw |-> orders, deduped |-> deduped, current |-> current]
  /\ UNCHANGED <<st, view, now, keys, orders, clients, folder, files, shared,
                 run, idLookups, sugLookups, msg, faults, selected>>

\* the screen mounts and AsyncStorage.getItem('orders') rejects: the catch logs
HistoryLoadFails ==
  /\ hist.pc # "write"
  /\ faults < MaxFaults
  /\ faults' = faults + 1
  /\ hist' = [pc |-> "failed", sections |-> <<>>]
  /\ UNCHANGED <<st, view, now, keys, orders, clients, folder, files, shared,
                 run, idLookups, sugLookups, msg, selected>>

\* step 3: AsyncStorage.setItem('orders', JSON.stringify(deduped)), then steps 4 and 5;
\* when it rejects the catch logs and no section is set
HistoryWrite(ok) ==
  /\ hist.pc = "write"
  /\ ok \/ faults < MaxFaults
  /\ faults' = IF ok THEN faults ELSE faults + 1
  /\ orders' = IF ok THEN hist.deduped ELSE orders
  /\ hist' = IF ok
             THEN [hist EXCEPT !.pc = "done",
                               !.sections = Sections(hist.deduped, hist.current)]
             ELSE [hist EXCEPT !.pc = "failed"]
  /\ UNCHANGED <<st, view, now, keys, clients, folder, files, shared, run,
                 idLookups, sugLookups, msg, selected>>

----------------------------------------------------------------------------
(* Inputs *)

Date1 == [d |-> 5, m |-> 3, y |-> 2025]
Date2 == [d |-> 12, m |-> 11, y |-> 2025]
Time1 == [h |-> 15, min |-> 30]
Time2 == [h |-> 0, min |-> 5]

Mobile1 == <<"9", "8", "7", "6", "5", "4", "3", "2", "1", "0">>
Mobile2 == <<"9", "1", "2", "3", "4", "5", "6", "7", "8", "9">>

----------------------------------------------------------------------------
(* The app after the form mounted: its first render is committed and the two
   effects have run on the empty client name.  AsyncStorage holds what earlier
   sessions left: nothing on a first start. *)

InitWith(date, time, storedOrders, storedClients) ==
  /\ st = InitialState(date, time)
  /\ view = st
  /\ now = ClockStart
  /\ keys = (IF storedOrders = <<>> THEN {} ELSE {"orders"})
               \cup (IF storedClients = <<>> THEN {} ELSE {"clients"})
  /\ orders = storedOrders
  /\ clients = storedClients
  /\ folder = FALSE
  /\ files = {}
  /\ shared = {}
  /\ run = [r \in RunIds |-> IdleRun]
  /\ idLookups = <<>>
  /\ sugLookups = <<>>
  /\ msg = "idle"
  /\ hist = Unmounted
  /\ faults = 0
  /\ selected = NoClient

Init == InitWith(Date1, Time1, <<>>, <<>>)

\* the user acts on a screen that shows the current state
Settled == view = st

\* one sendPDFOnly at a time
NoRun == \A r \in RunIds : ~InFlight(r)

\* the steps of the runs in flight
RunStep(oks) ==
  \E r \in RunIds, ok \in oks :
    \/ EnsureFolder(r, ok)
    \/ PrintToFile(r, ok)
    \/ CopyFile(r, ok)
    \/ GetOrders(r, ok)
    \/ SetOrders(r, ok)
    \/ LoadClients(r, ok)
    \/ SetClients(r, ok)
    \/ ShareFile(r, ok)

----------------------------------------------------------------------------
(* The order-block handlers alone: add, update and remove in any order, a
   handler possibly running before the render of the previous one, the clock
   possibly standing still between two adds *)

BlockFields == {"description", "notes"}
BlockTexts == {<<"m">>}

NextBlocks ==
  \/ Tick
  \/ AddOrderBlock
  \/ \E id \in RenderedBlockIds, f \in BlockFields, t \in BlockTexts : UpdateBlock(id, f, t)
  \/ \E id \in RenderedBlockIds : RemoveBlock(id)
  \/ Render

SpecBlocks == Init /\ [][NextBlocks]_vars

\* C8: the block list always holds at least one block, removeBlock on a list of
\* one block changes nothing, and removeBlock on a longer list removes exactly
\* one block, the one named, and leaves the others as they were.
C8_BlockMinimum ==
  [][/\ Len(st'.orderBlocks) >= 1
     /\ (\E id \in RenderedBlockIds : RemoveBlock(id)) =>
           IF Len(st.orderBlocks) = 1 THEN st'.orderBlocks = st.orderBlocks
           ELSE \E i \in 1..Len(st.orderBlocks) :
                  st'.orderBlocks = Without(st.orderBlocks, i)]_vars

\* all sequences over items of length at most n
RECURSIVE SeqsUpTo(_, _)
SeqsUpTo(items, n) ==
  IF n = 0 THEN {<<>>}
  ELSE LET shorter == SeqsUpTo(items, n - 1)
       IN shorter \cup {Append(q, x) : q \in shorter, x \in items}

----------------------------------------------------------------------------
(* generateOrderId alone: the name and the date are edited, one edit at a time,
   against an 'orders' item left by earlier sessions *)

MaxStored == 2

IdNames == {<<>>, <<"a">>, <<"a", " ", "B">>, <<" ">>}
IdDates == {Date1, Date2}
IdTimes == {Time1, Time2}

IdStoredOrders ==
  { [id |-> <<"A", "0", "5", "0", "3", "2", "0", "2", "5", "Q", "0", "0", "1">>],
    [id |-> <<"A", "B", "0", "5", "0", "3", "2", "0", "2", "5", "Q", "0", "0", "1">>],
    [id |-> <<"A", "B", "1", "2", "1", "1", "2", "0", "2", "5", "Q", "0", "0", "4">>],
    [id |-> <<"0", "5", "0", "3", "2", "0", "2", "5", "Q", "0", "0", "1">>],
    [clientName |-> <<"a">>] }

InitId == \E stored \in SeqsUpTo(IdStoredOrders, MaxStored) : InitWith(Date1, Time1, stored, <<>>)

\* nothing of the form is pending
Quiet == Settled /\ idLookups = <<>> /\ sugLookups = <<>>

NextId ==
  \/ Quiet /\ \E n \in IdNames : SetClientName(n)
  \/ Quiet /\ \E d \in IdDates : OnChangeDate(d)
  \/ Quiet /\ \E t \in IdTimes : OnChangeTime(t)
  \/ Render
  \/ \E i \in 1..Len(idLookups) : IdLookupDone(i)
  \/ \E i \in 1..Len(sugLookups) : SugLookupDone(i, TRUE)

SpecId == InitId /\ [][NextId]_vars

RECURSIVE C9_Stem(_)
\* the name, character by character: white space dropped, letters in upper case
C9_Stem(name) ==
  IF name = <<>> THEN <<>>
  ELSE IF name[1] \in {" ", "\t", "\n"} THEN C9_Stem(Tail(name))
  ELSE <<UpperChar(name[1])>> \o C9_Stem(Tail(name))

\* id is the Quotation ID of (name, date) against stored: the stem, DD, MM, YYYY,
\* 'Q', and in three digits one more than the number of stored ids it is a prefix of
C9_IsQuotationId(id, name, date, stored) ==
  IF name = <<>> THEN id = <<>>
  ELSE LET n == Len(id) - 12
           b == n + 9
           count == Cardinality({i \in 1..Len(stored) :
                       /\ "id" \in DOMAIN stored[i]
                       /\ Len(stored[i].id) >= b
                       /\ \A j \in 1..b : stored[i].id[j] = id[j]})
       IN /\ n >= 0
          /\ SubSeq(id, 1, n) = C9_Stem(name)
          /\ \A j \in (n + 1)..(n + 8) : IsDigit(id[j])
          /\ DigitsValue(SubSeq(id, n + 1, n + 2)) = date.d
          /\ DigitsValue(SubSeq(id, n + 3, n + 4)) = date.m
          /\ DigitsValue(SubSeq(id, n + 5, n + 8)) = date.y
          /\ id[b] = "Q"
          /\ \A j \in (b + 1)..(b + 3) : IsDigit(id[j])
          /\ DigitsValue(SubSeq(id, b + 1, b + 3)) = count + 1

\* C9: once the lookup an edit of the name or the date started has completed,
\* the order id is base + seq for the name and date of the form and the stored
\* orders (the empty string for an empty name), and no step changes 'orders'.
C9_QuotationId ==
  /\ [](Quiet => C9_IsQuotationId(st.orderId, st.clientName, st.date, StoredOrders))
  /\ [][orders' = orders /\ keys' = keys]_vars

\* the id of "a B" on 5 March 2025 with one stored order of that base
C9_Witness ==
  /\ Quiet
  /\ st.clientName = <<"a", " ", "B">>
  /\ st.orderId = <<"A", "B", "0", "5", "0", "3", "2", "0", "2", "5", "Q", "0", "0", "2">>

----------------------------------------------------------------------------
(* The History load alone, over any 'orders' array earlier sessions (or a
   corruption) may have left: duplicates of an id, entries without pdfUri or
   with an empty id, entries without the optional fields *)

MaxHistory == 3

DateTime1 == FormatDateTime(Date1, Time1)
DateTime2 == FormatDateTime(Date2, Time1)

HistStoredOrders ==
  { [id |-> <<"X", "1">>, clientName |-> <<"a">>, dateTime |-> DateTime1, pdfUri |-> <<"u", "1">>],
    [id |-> <<"X", "1">>, clientName |-> <<"b">>, dateTime |-> DateTime2, pdfUri |-> <<"u", "2">>],
    [id |-> <<"X", "2">>, dateTime |-> DateTime2, pdfUri |-> <<"u", "3">>],
    [id |-> <<"X", "3">>, clientName |-> <<"c">>, dateTime |-> DateTime1],
    [id |-> <<>>, clientName |-> <<"d">>, dateTime |-> DateTime1, pdfUri |-> <<"u", "5">>] }

\* new Date() at the time of the load
HistoryClock == DateValue(2026, 0, 15, 10, 0)

InitHistory ==
  \E stored \in SeqsUpTo(HistStoredOrders, MaxHistory) : InitWith(Date1, Time1, stored, <<>>)

NextHistory ==
  \/ HistoryLoad(HistoryClock)
  \/ HistoryLoadFails
  \/ \E ok \in BOOLEAN : HistoryWrite(ok)

SpecHistory == InitHistory /\ [][NextHistory]_vars

\* the entry has a non-empty id, dateTime and pdfUri
C7_WellFormed(o) ==
  /\ {"id", "dateTime", "pdfUri"} \subseteq DOMAIN o
  /\ o.id # <<>> /\ o.dateTime # <<>> /\ o.pdfUri # <<>>

\* the indices of the well-formed entries that are the first with their id
C7_Kept(raw) ==
  {i \in 1..Len(raw) :
     /\ C7_WellFormed(raw[i])
     /\ \A j \in 1..(i - 1) : C7_WellFormed(raw[j]) => raw[j].id # raw[i].id}

\* list holds the kept entries of raw, in their order in raw
C7_IsCleaned(list, raw) ==
  /\ Len(list) = Cardinality(C7_Kept(raw))
  /\ \A k \in 1..Len(list) :
       LET i == CHOOSE i \in C7_Kept(raw) : Cardinality({j \in C7_Kept(raw) : j <= i}) = k
       IN list[k] = Normalized(raw[i])

\* the orders the sections show, section after section
RECURSIVE C7_FlatData(_)
C7_FlatData(sections) ==
  IF sections = <<>> THEN <<>> ELSE Head(sections).data \o C7_FlatData(Tail(sections))

\* some well-formed entry of raw repeats the id of an earlier well-formed entry
C7_HasDuplicate(raw) ==
  \E i \in 1..Len(raw), j \in 1..Len(raw) :
     j < i /\ C7_WellFormed(raw[i]) /\ C7_WellFormed(raw[j]) /\ raw[j].id = raw[i].id

\* C7: when a load of the array raw has completed, the deduplicated list is the
\* well-formed entries of raw reduced to the first occurrence of each id, in
\* their order; History shows exactly those orders; and 'orders' holds that
\* list if deduplication removed an entry, and is untouched otherwise.
C7_LoadAndRepair ==
  (hist.pc = "done" /\ "raw" \in DOMAIN hist) =>
     LET shown == C7_FlatData(hist.sections)
     IN /\ C7_IsCleaned(hist.deduped, hist.raw)
        /\ Len(shown) = Len(hist.deduped)
        /\ \A k \in 1..Len(hist.deduped) : \E n \in 1..Len(shown) : shown[n] = hist.deduped[k]
        /\ IF C7_HasDuplicate(hist.raw) THEN C7_IsCleaned(orders, hist.raw)
           ELSE orders = hist.raw

\* a load that dropped a malformed entry and a duplicate and wrote the list back
C7_Witness ==
  /\ hist.pc = "done" /\ "raw" \in DOMAIN hist
  /\ Len(hist.raw) = 3
  /\ Len(hist.deduped) = 1
  /\ \E i \in 1..3 : ~C7_WellFormed(hist.raw[i])
  /\ orders = hist.deduped
  /\ Len(C7_FlatData(hist.sections)) = 1

----------------------------------------------------------------------------
(* Sequential saves: the form is filled and edited, Send PDF is pressed when
   no earlier press is still running, every awaited call resolves, and the
   History screen stays closed *)

Name1 == <<"a", "b">>
Address1 == <<"x">>
Address2 == <<"y">>
Amount1 == <<"5">>
Text1 == <<"m">>

SaveMobiles == {Mobile1, Mobile2}
SaveAddresses == {Address1, Address2}

NextSave ==
  \/ Quiet /\ NoRun /\ SetClientName(Name1)
  \/ Quiet /\ NoRun /\ \E m \in SaveMobiles : SetMobile(m)
  \/ Quiet /\ NoRun /\ \E a \in SaveAddresses : SetAddress(a)
  \/ Quiet /\ NoRun /\ SetQuotationAmount(Amount1)
  \/ Quiet /\ NoRun /\ \E id \in RenderedBlockIds, f \in BlockFields :
                          UpdateBlock(id, f, Text1)
  \/ Render
  \/ \E i \in 1..Len(idLookups) : IdLookupDone(i)
  \/ \E i \in 1..Len(sugLookups) : SugLookupDone(i, TRUE)
  \/ /\ Quiet /\ NoRun
     /\ Len(StoredOrders) < MaxOrders
     /\ \E r \in RunIds : SendPDFOnly(r)
  \/ RunStep({TRUE})

SpecSave == Init /\ [][NextSave]_vars

\* C1: no two records of 'orders' have the same id.
C1_UniqueIds ==
  \A i \in 1..Len(StoredOrders), j \in 1..Len(StoredOrders) :
     i # j => StoredOrders[i].id # StoredOrders[j].id

\* the client record of a stored order
C2_ClientOf(o) ==
  [mobile |-> o.mobile, name |-> o.clientName, address |-> o.address,
   notes |-> o.orderBlocks[1].notes]

\* o is the last stored order with its mobile
C2_IsLatest(i) ==
  \A j \in (i + 1)..Len(StoredOrders) : StoredOrders[j].mobile # StoredOrders[i].mobile

\* C2: 'clients' never holds two records with one mobile; when no save is
\* running every mobile of a stored order has a record, and every record is the
\* name, address and first-block notes of the last stored order with its
\* mobile; and no step moves or removes a record.
C2_ClientUpsert ==
  /\ [](\A i \in 1..Len(StoredClients), j \in 1..Len(StoredClients) :
          i # j => StoredClients[i].mobile # StoredClients[j].mobile)
  /\ [](NoRun =>
          /\ \A i \in 1..Len(StoredOrders) : \E k \in 1..Len(StoredClients) :
               StoredClients[k].mobile = StoredOrders[i].mobile
          /\ \A k \in 1..Len(StoredClients) : \E i \in 1..Len(StoredOrders) :
               /\ C2_IsLatest(i)
               /\ StoredClients[k] = C2_ClientOf(StoredOrders[i]))
  /\ [][\A k \in 1..Len(StoredClients) :
          /\ k <= Len(StoredClients')
          /\ StoredClients'[k].mobile = StoredClients[k].mobile]_vars

\* three saves, the third for the mobile of the first with another address:
\* the first of two records is overwritten where it stands
C2_Witness ==
  /\ NoRun
  /\ Len(StoredOrders) = 3
  /\ Len(StoredClients) = 2
  /\ StoredClients[1].mobile = StoredOrders[1].mobile
  /\ StoredClients[1].address # StoredOrders[1].address
  /\ StoredClients[1].address = StoredOrders[3].address

----------------------------------------------------------------------------
(* Submission: the fields are typed, cleared and retyped, with mobiles of ten
   digits, with a sign, of white space, with letters and of nine digits; Send PDF is pressed on whatever the screen shows,
   possibly before the id lookup has answered; an awaited call may reject *)

MaxSubmits == 1

PlusMobile == <<"+", "1", "2", "3", "4", "5", "6", "7", "8", "9">>
SpaceMobile == <<" ", " ", " ", " ", " ", " ", " ", " ", " ", " ">>
LetterMobile == <<"9", "8", "7", "6", "5", "4", "3", "2", "a", "b">>
ShortMobile == <<"9", "8", "7", "6", "5", "4", "3", "2", "1">>

SubmitMobiles == {<<>>, Mobile1, PlusMobile, SpaceMobile, LetterMobile, ShortMobile}

NextSubmit ==
  \/ Quiet /\ NoRun /\ \E n \in {<<>>, Name1} : SetClientName(n)
  \/ Quiet /\ NoRun /\ \E m \in SubmitMobiles : SetMobile(m)
  \/ Quiet /\ NoRun /\ \E a \in {<<>>, Address1} : SetAddress(a)
  \/ Quiet /\ NoRun /\ \E q \in {<<>>, Amount1} : SetQuotationAmount(q)
  \/ Quiet /\ NoRun /\ \E id \in RenderedBlockIds : UpdateBlock(id, "description", Text1)
  \/ Render
  \/ \E i \in 1..Len(idLookups) : IdLookupDone(i)
  \/ \E i \in 1..Len(sugLookups) : SugLookupDone(i, TRUE)
  \/ /\ Settled /\ NoRun
     /\ Len(StoredOrders) < MaxSubmits
     /\ \E r \in RunIds : SendPDFOnly(r)
  \/ RunStep(BOOLEAN)

SpecSubmit == Init /\ [][NextSubmit]_vars

\* C3: the step on which a generate-and-save ends in its catch, with the
\* message "Failed to generate PDF", leaves 'orders' as it was when that
\* generate-and-save started.
C3_NoPartialRecord ==
  [][\A r \in RunIds :
       (InFlight(r) /\ Rejected(r)) => StoredOrders' = run[r].before]_vars

\* one of the five required fields is empty on the screen
C4_SomeEmpty ==
  \/ view.orderId = <<>> \/ view.clientName = <<>> \/ view.mobile = <<>>
  \/ view.address = <<>> \/ view.quotationAmount = <<>>

\* C4: a press of Send PDF with one of the five required fields empty shows
\* "Fill all required fields.", starts no generation and no share, and leaves
\* 'orders', 'clients', the PDF folder and the form fields as they were.
C4_RequiredGate ==
  [][\A r \in RunIds :
       (C4_SomeEmpty /\ SendPDFOnly(r)) =>
          /\ st'.snackbarMessage = "Fill all required fields."
          /\ st'.snackbarVisible
          /\ run' = run
          /\ UNCHANGED <<keys, orders, clients, folder, files, shared>>
          /\ Closure(st') = Closure(st)]_vars

\* the message is up over a form in which only the address is missing
C4_Witness ==
  /\ st.snackbarVisible
  /\ st.snackbarMessage = "Fill all required fields."
  /\ st.address = <<>>
  /\ st.orderId # <<>> /\ st.clientName # <<>> /\ st.mobile = Mobile1
  /\ st.quotationAmount # <<>>
  /\ NoRun /\ StoredOrders = <<>> /\ files = {}

\* s is ten decimal digits
C5_TenDigits(s) == Len(s) = 10 /\ \A i \in 1..Len(s) : s[i] \in {"0", "1", "2", "3", "4", "5", "6", "7", "8", "9"}

\* C5: a generate-and-save that is past its checks has a mobile of ten decimal
\* digits, and so has every stored order and client.
C5_MobileDigits ==
  /\ \A r \in RunIds : InFlight(r) => C5_TenDigits(run[r].cl.mobile)
  /\ \A i \in 1..Len(StoredOrders) : C5_TenDigits(StoredOrders[i].mobile)
  /\ \A i \in 1..Len(StoredClients) : C5_TenDigits(StoredClients[i].mobile)

----------------------------------------------------------------------------
(* The app: the form, Send PDF pressed when no earlier press is still running,
   Send Message, and the History screen opened at any time.  The calls a
   generate-and-save awaits resolve; a lookup of the form or a read or write of
   the History screen may reject *)

MaxSaves == 2

FormEdit ==
  \/ SetClientName(Name1)
  \/ SetMobile(Mobile1)
  \/ SetAddress(Address1)
  \/ SetQuotationAmount(Amount1)
  \/ \E id \in RenderedBlockIds, f \in BlockFields : UpdateBlock(id, f, Text1)
  \/ DismissSnackbar

Next ==
  \/ Quiet /\ NoRun /\ FormEdit
  \/ Render
  \/ \E i \in 1..Len(idLookups) : IdLookupDone(i) \/ IdLookupFails(i)
  \/ \E i \in 1..Len(sugLookups), ok \in BOOLEAN : SugLookupDone(i, ok)
  \/ /\ Quiet /\ NoRun
     /\ Len(StoredOrders) < MaxSaves
     /\ \E r \in RunIds : SendPDFOnly(r)
  \/ RunStep({TRUE})
  \/ Quiet /\ SendMessageOnly
  \/ \E can \in BOOLEAN : MessageDone(can)
  \/ HistoryLoad(HistoryClock)
  \/ HistoryLoadFails
  \/ \E ok \in BOOLEAN : HistoryWrite(ok)

Spec == Init /\ [][Next]_vars

\* C6: every record of 'orders' is still a record of 'orders', with the same
\* fields, after every step of the app.
C6_OrdersKept ==
  [][\A i \in 1..Len(StoredOrders) : \E j \in 1..Len(StoredOrders') :
        StoredOrders'[j] = StoredOrders[i]]_vars

----------------------------------------------------------------------------
(* Suggestions: two clients are on file from two earlier saves; the name and
   the mobile are typed, a field is focused, a suggestion is pressed *)

\* the form of an earlier save
EarlierForm(name, mobile, address) ==
  [orderId |-> GenerateOrderId(name, Date1, <<>>), clientName |-> name,
   mobile |-> mobile, address |-> address, date |-> Date1, time |-> Time1,
   orderBlocks |-> <<[NewBlock(<<"1">>) EXCEPT !.description = Text1]>>,
   quotationAmount |-> Amount1]

Form1 == EarlierForm(Name1, Mobile1, Address1)
Form2 == EarlierForm(<<"c", "d">>, Mobile2, Address2)

InitSuggest ==
  InitWith(Date1, Time1, <<OrderRecord(Form1), OrderRecord(Form2)>>,
           UpsertClient(UpsertClient(<<>>, NewClient(Form1)), NewClient(Form2)))

SuggestNames == {<<>>, <<"a">>, <<"a", "b">>, <<"C", "D">>, <<"z", "z">>}
SuggestMobiles == {<<>>, <<"9">>, <<"9", "8">>, <<"9", "1", "2">>}

NextSuggest ==
  \/ Quiet /\ \E n \in SuggestNames : SetClientName(n)
  \/ Quiet /\ \E m \in SuggestMobiles : SetMobile(m)
  \/ Quiet /\ \E f \in {"name", "mobile"} : SetSearchField(f)
  \/ Quiet /\ \E i \in 1..Len(view.clientSuggestions) : SelectClient(view.clientSuggestions[i])
  \/ Render
  \/ \E i \in 1..Len(idLookups) : IdLookupDone(i)
  \/ \E i \in 1..Len(sugLookups) : SugLookupDone(i, TRUE)

SpecSuggest == InitSuggest /\ [][NextSuggest]_vars

\* C10: when a suggestion has been pressed, the name and the mobile have not
\* been edited since, and nothing of the form is pending, then name, mobile and
\* address are those of the pressed client and the list is hidden.
C10_HiddenAfterSelect ==
  (Quiet /\ selected # NoClient) =>
     /\ st.clientName = selected.name
     /\ st.mobile = selected.mobile
     /\ st.address = selected.address
     /\ ~st.showSuggestions

----------------------------------------------------------------------------
(* The History load over well-formed orders: dates in three months, two
   orders on one day, a dateTime parseDate cannot read, and possibly an order
   stored twice *)

MaxGrouped == 4

GroupedOrder(id, dateTime) ==
  [id |-> id, clientName |-> Name1, mobile |-> Mobile1, address |-> Address1,
   dateTime |-> dateTime, orderBlocks |-> <<>>, quotationAmount |-> Amount1,
   pdfUri |-> PdfUri(id)]

GroupStoredOrders ==
  { GroupedOrder(<<"M", "1">>, FormatDateTime([d |-> 5, m |-> 3, y |-> 2025], Time1)),
    GroupedOrder(<<"J", "1">>, FormatDateTime([d |-> 10, m |-> 1, y |-> 2025], Time1)),
    GroupedOrder(<<"M", "2">>, FormatDateTime([d |-> 5, m |-> 3, y |-> 2025], Time2)),
    GroupedOrder(<<"F", "1">>, FormatDateTime([d |-> 1, m |-> 2, y |-> 2025], Time1)),
    GroupedOrder(<<"U", "1">>, <<"s", "o", "o", "n">>) }

InitGroup ==
  \E stored \in SeqsUpTo(GroupStoredOrders, MaxGrouped) : InitWith(Date1, Time1, stored, <<>>)

NextGroup ==
  \/ HistoryLoad(HistoryClock)
  \/ HistoryLoadFails
  \/ \E ok \in BOOLEAN : HistoryWrite(ok)

SpecGroup == InitGroup /\ [][NextGroup]_vars

\* the parsed date of an order the sections show
C11_Stamp(o) == ParseDate(o, hist.current)

\* C11: after a completed load the sections hold every deduplicated order
\* exactly once; a section's title is the month and year of the parsed date of
\* each of its orders and no two sections have one title; count is the number
\* of orders in the section; every order of a section is newer than every
\* order of a later section, and the orders of a section are newest first.
C11_MonthlyGrouping ==
  (hist.pc = "done" /\ "raw" \in DOMAIN hist) =>
     LET secs == hist.sections
         Members(g) == {secs[g].data[k] : k \in 1..Len(secs[g].data)}
     IN /\ \A k \in 1..Len(hist.deduped) :
             Cardinality({<<g, n>> \in (1..Len(secs)) \X (1..Len(hist.deduped)) :
                            n <= Len(secs[g].data) /\ secs[g].data[n] = hist.deduped[k]}) = 1
        /\ \A g \in 1..Len(secs) :
             /\ secs[g].data # <<>>
             /\ secs[g].count = Len(secs[g].data)
             /\ \A o \in Members(g) :
                  /\ secs[g].title = MonthKey(C11_Stamp(o))
                  /\ \E k \in 1..Len(hist.deduped) : hist.deduped[k] = o
             /\ \A n \in 1..(Len(secs[g].data) - 1) :
                  C11_Stamp(secs[g].data[n]) >= C11_Stamp(secs[g].data[n + 1])
             /\ \A h \in (g + 1)..Len(secs) :
                  /\ secs[h].title # secs[g].title
                  /\ \A o \in Members(g), q \in Members(h) : C11_Stamp(o) > C11_Stamp(q)

\* orders of March, January, March and February 2025, stored in that order,
\* are shown as March (2), February, January
C11_Witness ==
  /\ hist.pc = "done" /\ "raw" \in DOMAIN hist
  /\ [i \in 1..Len(hist.raw) |-> hist.raw[i].id]
       = << <<"M", "1">>, <<"J", "1">>, <<"M", "2">>, <<"F", "1">> >>
  /\ [g \in 1..Len(hist.sections) |-> <<hist.sections[g].title, hist.sections[g].count>>]
       = << << <<MonthNames[3], " ", "2", "0", "2", "5">>, 2>>,
            << <<MonthNames[2], " ", "2", "0", "2", "5">>, 1>>,
            << <<MonthNames[1], " ", "2", "0", "2", "5">>, 1>> >>
  /\ hist.sections[1].data[1].id = <<"M", "1">>

----------------------------------------------------------------------------
(* Overlap: Send PDF may be pressed again while an earlier press is still
   running, and the History screen may be opened at any time; every awaited
   call resolves *)

MaxOverlap == 1

NextOverlap ==
  \/ Quiet /\ NoRun /\ FormEdit
  \/ Render
  \/ \E i \in 1..Len(idLookups) : IdLookupDone(i)
  \/ \E i \in 1..Len(sugLookups) : SugLookupDone(i, TRUE)
  \/ /\ Settled
     /\ Len(StoredOrders) < MaxOverlap
     /\ \E r \in RunIds : SendPDFOnly(r)
  \/ RunStep({TRUE})
  \/ HistoryLoad(HistoryClock)
  \/ HistoryWrite(TRUE)

SpecOverlap == Init /\ [][NextOverlap]_vars

\* C12: when a generate-and-save writes 'orders', the item still is the array
\* that generate-and-save read, and when the History load writes 'orders', the
\* item still is the array that load read.
C12_SingleWriter ==
  [][/\ \A r \in RunIds :
          (run[r].pc = "setOrders" /\ SetOrders(r, TRUE)) =>
             StoredOrders = SubSeq(run[r].list, 1, Len(run[r].list) - 1)
     /\ (hist.pc = "write" /\ HistoryWrite(TRUE)) => orders = hist.raw]_vars

----------------------------------------------------------------------------
(* The identifier of the record a generate-and-save appends *)

\* C13: the record a generate-and-save appends to 'orders' carries the id that
\* generateOrderId yields for the record's own client name and event date
\* against the array the record is appended to.
C13_FreshIdAtSave ==
  [][\A r \in RunIds :
       (run[r].pc = "setOrders" /\ SetOrders(r, TRUE)) =>
          orders'[Len(orders')].id =
             GenerateOrderId(run[r].cl.clientName, run[r].cl.date,
                             SubSeq(run[r].list, 1, Len(run[r].list) - 1))]_vars

----------------------------------------------------------------------------
(* The order of the steps of generate-and-save, awaited calls possibly
   rejecting *)

C14_Steps ==
  <<"ensureFolder", "print", "copy", "getOrders", "setOrders", "loadClients",
    "setClients", "share">>

C14_StepNo(pc) == CHOOSE i \in 1..Len(C14_Steps) : C14_Steps[i] = pc

\* run r has completed the given step
C14_Past(r, step) == InFlight(r) /\ C14_StepNo(run[r].pc) > C14_StepNo(step)

C14_Appended(r) ==
  \E i \in 1..Len(StoredOrders) : StoredOrders[i] = OrderRecord(run[r].cl)

\* what a run has completed is in place
C14_InOrder ==
  \A r \in RunIds :
    /\ C14_Past(r, "ensureFolder") => folder
    /\ C14_Past(r, "copy") => PdfUri(run[r].cl.orderId) \in files
    /\ C14_Past(r, "setOrders") => C14_Appended(r)
    /\ C14_Past(r, "setClients") =>
         \E i \in 1..Len(StoredClients) : StoredClients[i] = NewClient(run[r].cl)

C14_PdfPresent ==
  \A i \in 1..Len(StoredOrders) : StoredOrders[i].pdfUri \in files

\* a step acts only when it is the step the run has arrived at and the steps
\* before it are in place; a run that ends before the share changes nothing
C14_OneAtATime ==
  /\ folder' # folder => \E r \in RunIds : run[r].pc = "ensureFolder"
  /\ files' # files =>
       \E r \in RunIds : run[r].pc = "copy" /\ folder
                         /\ files' = files \cup {PdfUri(run[r].cl.orderId)}
  /\ StoredOrders' # StoredOrders =>
       \E r \in RunIds : /\ run[r].pc = "setOrders"
                         /\ PdfUri(run[r].cl.orderId) \in files
                         /\ StoredOrders' = Append(StoredOrders, OrderRecord(run[r].cl))
  /\ StoredClients' # StoredClients =>
       \E r \in RunIds : run[r].pc = "setClients" /\ C14_Appended(r)
  /\ \A r \in RunIds :
       (InFlight(r) /\ run'[r] = IdleRun /\ run[r].pc # "share") =>
          UNCHANGED <<keys, orders, clients, folder, files, shared>>

\* C14: in every generate-and-save the folder is ensured, the document
\* printed, the file copied to <id>.pdf, the order appended to 'orders' and
\* the client upserted into 'clients' in that order, one after the other; a
\* rejected step ends the run with the later steps not executed; every record
\* of 'orders' has its PDF file at its pdfUri.
C14_StepOrder ==
  [][C14_InOrder' /\ C14_PdfPresent' /\ C14_OneAtATime]_vars

C14_Witness ==
  /\ NoRun
  /\ faults = 1
  /\ st.snackbarMessage = "PDF shared"
  /\ Len(StoredOrders) = 1
  /\ Len(StoredClients) = 1
  /\ StoredOrders[1].pdfUri \in files \cap shared

----------------------------------------------------------------------------
(* Typing while lookups are pending: the two clients of InitSuggest are on
   file; the name and the mobile are edited and a field is focused on the
   screen as rendered, whether or not earlier lookups have answered *)

MaxPending == 2

\* the name or the mobile is edited, or a field focused, on the rendered screen
Typing ==
  /\ Settled
  /\ Len(sugLookups) < MaxPending
  /\ Len(idLookups) < MaxPending
  /\ \/ \E n \in {<<>>, <<"a">>, <<"a", "b">>} : SetClientName(n)
     \/ \E m \in {<<>>, <<"9">>, <<"9", "8">>} : SetMobile(m)
     \/ \E f \in {"name", "mobile"} : SetSearchField(f)

NextType ==
  \/ Typing
  \/ Render
  \/ \E i \in 1..Len(idLookups) : IdLookupDone(i)
  \/ \E i \in 1..Len(sugLookups) : SugLookupDone(i, TRUE)

SpecType == InitSuggest /\ [][NextType]_vars

\* C15: when the screen shows the current state, no client lookup is pending
\* and the active query has fewer than 2 characters, the suggestion list is
\* hidden.
C15_ShortQueryHides ==
  (Settled /\ sugLookups = <<>> /\ Len(Query(st)) < MinQueryLen) =>
     ~st.showSuggestions

====
